---- MODULE Spec2Model ----
(***************************************************************************)
(* ChatPage (src/unnamed/part_000, lines 38-291): the orchestration logic  *)
(* of the project page.  One page instance holds React state, three refs   *)
(* and the shared structure context; the mount effect starts either the    *)
(* status fetch (fetchProjectDeploymentUrl) or the generation pipeline     *)
(* (generateCode); the send button starts a modification run               *)
(* (handleSubmit).  Every `await` of the source is a suspension point: the *)
(* part of a handler up to its next await is one action, and the response  *)
(* of the awaited service is the input of the action that resumes it.      *)
(***************************************************************************)
EXTENDS Integers, Sequences, FiniteSets, TLC

\* ---------------------------------------------------------------- bounds
\* How many times the mount effect body is invoked on one page instance.
MaxEffectRuns == 2
\* How many modification requests the user sends in one session.
MaxSubmits == 1

\* ----------------------------------------------------------------- values
\* The ids of the projects in the store; location.state.projectId is one of
\* them or absent (NoProjectId, falsy at lines 114, 149, 172 and 174).
ProjectIds == {"42"}
NoProjectId == "undefined"
NoUrl == ""
RecordedUrl == "https://preview.example/recorded"
BuiltUrl == "https://preview.example/built"
NavPrompt == "build a todo app"
TypedPrompts == {" ", "add a dark mode toggle"}
EmptyStructure == "{}"
ParsedStructure == "structure"
Missing == "undefined"

EffectIds == 1..MaxEffectRuns
SubmitIds == 1..MaxSubmits
\* The modification runs of a session on a project that exists already.
MaxSessionSubmits == 2
SessionSubmitIds == 1..MaxSessionSubmits

VARIABLES
    loadingCode,       \* useState(false), line 40
    messages,          \* useState<Message[]>([]), line 41
    prompt,            \* useState(""), line 42
    isLoading,         \* useState(false), line 43
    previewUrl,        \* useState(""), line 44
    error,             \* useState(""), line 45
    projectStatus,     \* useState("idle"), line 46
    hasInitialized,    \* useRef(false), line 51
    isGenerating,      \* useRef(false), line 52
    currentProjectId,  \* useRef(null), line 53: {} is null, {id} is id
    value,             \* the context's value, FrontendStructureContext.tsx:22
    location,          \* location.state, lines 55-60
    store,             \* the project store behind /api/projects/:id
    rendered,          \* the state the last committed render closed over
    initRun,           \* one entry per invocation of the mount effect
    submitRun          \* one entry per admitted handleSubmit

vars == <<loadingCode, messages, prompt, isLoading, previewUrl, error,
          projectStatus, hasInitialized, isGenerating, currentProjectId,
          value, location, store, rendered, initRun, submitRun>>

\* String.prototype.trim on the prompts of the model (line 188).
Trim(s) == IF s = " " THEN "" ELSE s

\* What a render closes over: the values handleSubmit and the controls read.
Snapshot ==
    [prompt |-> prompt, isLoading |-> isLoading,
     projectStatus |-> projectStatus, value |-> value]

\* A run of the mount effect that has not been invoked yet.
FreshInitRun ==
    [pc |-> "notrun", kind |-> "none", outcome |-> "none", calls |-> <<>>,
     during |-> {}, writeReport |-> "none", failedStage |-> "none",
     builtUrl |-> NoUrl, recordAtStart |-> NoUrl, endStatus |-> "none", endPreviewUrl |-> NoUrl,
     endError |-> "", endGuard |-> FALSE]

\* A modification run that has not been started yet.
FreshSubmitRun ==
    [pc |-> "notrun", outcome |-> "none", calls |-> <<>>,
     currentPrompt |-> "", structure |-> EmptyStructure,
     modifyOutput |-> <<>>, written |-> <<>>, failedStage |-> "none"]

\* Records of the project store: a project not yet deployed, a deployed one.
InitialRecords ==
    {[deploymentUrl |-> NoUrl, status |-> "pending"],
     [deploymentUrl |-> RecordedUrl, status |-> "ready"]}

Init ==
    /\ loadingCode = FALSE
    /\ messages = <<>>
    /\ prompt = ""
    /\ isLoading = FALSE
    /\ previewUrl = NoUrl
    /\ error = ""
    /\ projectStatus = "idle"
    /\ hasInitialized = FALSE
    /\ isGenerating = FALSE
    /\ currentProjectId = {}
    /\ value = EmptyStructure
    /\ location \in [prompt : {"", NavPrompt},
                     projectId : ProjectIds \cup {NoProjectId},
                     existingProject : BOOLEAN]
    /\ store \in [ProjectIds -> InitialRecords]
    /\ rendered = [prompt |-> "", isLoading |-> FALSE,
                   projectStatus |-> "idle", value |-> EmptyStructure]
    /\ initRun = [i \in EffectIds |-> FreshInitRun]
    /\ submitRun = [k \in SubmitIds |-> FreshSubmitRun]

\* ------------------------------------------------- decisions of the code
\* The projectStatus the mount effect's fetchProjectDeploymentUrl closes
\* over: the effect has an empty dependency list (line 184), so it keeps the
\* callbacks of the first render, whose projectStatus is the initial state.
EffectClosureStatus == "idle"

\* Line 67: the duplicate-fetch guard of fetchProjectDeploymentUrl.
FetchIsDuplicate(cur, projId, closureStatus) ==
    projId \in cur /\ closureStatus # "idle"

\* The guard of line 103 left out.
NeverGenerating(flag) == FALSE

\* Line 103: the in-flight guard of generateCode.
AlreadyGenerating(flag) == flag

\* The check of line 118 left out.
NeverHasDeploymentUrl(project) == FALSE

\* Lines 82 and 118: `if (project.deploymentUrl)`.
HasDeploymentUrl(project) == project.deploymentUrl # NoUrl

\* The release of lines 122 and 161 left out.
GuardKept == TRUE

\* Lines 122 and 161: `isGenerating.current = false` on every way out.
GuardOnReturn == FALSE

\* The catch block without line 158.
CatchLeavesLoading == "loading"

\* Line 158: the status the catch block of generateCode sets.
CatchStatus == "error"

\* Lines 137-139: the response of write-files is not read, so only a
\* rejected request ("fail") leaves the try block; an acknowledgement and a
\* response reporting a partial write both continue.
WriteFilesThrows(report) == report = "fail"

\* Line 149: `if (projId && data.data.previewUrl)`.
ShouldRecord(projId, url) == projId # NoProjectId /\ url # NoUrl

\* The PUT without its status field taking effect.
RecordPatchUrlOnly(url) == [deploymentUrl |-> url, status |-> "pending"]

\* Lines 150-153: the body of the PUT.
RecordPatch(url) == [deploymentUrl |-> url, status |-> "ready"]

\* The archive location of line 143, which is not a preview URL.
ZipUrl == "https://storage.example/archive.zip"

\* The archive location shown in place of the preview URL.
PreviewFromZip(url) == ZipUrl

\* Line 146: `setPreviewUrl(data.data.previewUrl)`.
PreviewFromBuild(url) == url

\* The catch block of fetchProjectDeploymentUrl without line 92.
FetchCatchLeavesLoading == "loading"

\* Line 92: the status the catch block of fetchProjectDeploymentUrl sets.
FetchCatchStatus == "error"

\* A rejected generateCode call reporting the rejection as an error.
ErrorSurfacedOnReject(err) == "Generation already in progress"

\* Lines 103-105: the rejected call returns before line 109 touches error.
ErrorOnReject(err) == err

\* The log replaced by the new message.
ReplaceMessages(prev, m) == <<m>>

\* Lines 200, 258 and 270: `setMessages((prev) => [...prev, m])`.
AppendMessage(prev, m) == Append(prev, m)

\* parseFrontendCode (../utils/newParserWithst, line 131): a well-formed
\* text parses, anything else throws.
ParseThrows(text) == text # "wellformed"

\* ------------------------------------------------------------ run records
InFlight(r) == r.pc \notin {"notrun", "done"}

GenerateInFlight == {j \in EffectIds : initRun[j].kind = "generate"
                                        /\ InFlight(initRun[j])}

RunsInFlight ==
    {<<"init", j>> : j \in {j \in EffectIds : InFlight(initRun[j])}}
    \cup {<<"submit", k>> :
             k \in {k \in DOMAIN submitRun : InFlight(submitRun[k])}}

\* The run record when the handler returns: what it leaves behind.
Ended(r, outcome, stage, st, url, err, guard) ==
    [r EXCEPT !.pc = "done", !.outcome = outcome, !.failedStage = stage,
              !.endStatus = st, !.endPreviewUrl = url, !.endError = err,
              !.endGuard = guard]

\* The run record of an invocation that returns without starting a run.
Returned(r, outcome) == [r EXCEPT !.pc = "done", !.outcome = outcome]

Called(r, stage) == [r EXCEPT !.calls = Append(@, stage)]

NextEffect(i) ==
    /\ initRun[i].pc = "notrun"
    /\ \A j \in EffectIds : j < i => initRun[j].pc # "notrun"

\* ------------------------------------------------------- the mount effect
\* Line 169: `if (hasInitialized.current) return`.
EffectSkip(i) ==
    /\ NextEffect(i)
    /\ hasInitialized
    /\ initRun' = [initRun EXCEPT ![i] =
           Returned([@ EXCEPT !.kind = "skipped"], "skipped")]
    /\ UNCHANGED <<loadingCode, messages, prompt, isLoading, previewUrl,
                   error, projectStatus, hasInitialized, isGenerating,
                   currentProjectId, value, location, store, rendered,
                   submitRun>>

\* Lines 172-173 and 65-79: the existing-project branch, up to the GET.
EffectFetch(i) ==
    /\ NextEffect(i)
    /\ ~hasInitialized
    /\ location.existingProject /\ location.projectId # NoProjectId
    /\ IF FetchIsDuplicate(currentProjectId, location.projectId,
                           EffectClosureStatus)
       THEN /\ hasInitialized' = TRUE
            /\ initRun' = [initRun EXCEPT ![i] =
                   Returned([@ EXCEPT !.kind = "fetch"], "rejected")]
            /\ UNCHANGED <<loadingCode, error, projectStatus,
                           currentProjectId>>
       ELSE /\ loadingCode' = TRUE
            /\ error' = ""
            /\ projectStatus' = "loading"
            /\ currentProjectId' = {location.projectId}
            /\ initRun' = [initRun EXCEPT ![i] =
                   Called([@ EXCEPT !.pc = "fetch_get", !.kind = "fetch",
                              !.outcome = "pending"], "get")]
            /\ UNCHANGED hasInitialized
    /\ UNCHANGED <<messages, prompt, isLoading, previewUrl, isGenerating,
                   value, location, store, rendered, submitRun>>

\* Lines 80-95 and 180: the GET of fetchProjectDeploymentUrl answers.
FetchGetResume(i) ==
    /\ initRun[i].pc = "fetch_get"
    /\ \/ LET project == store[location.projectId] IN
          IF HasDeploymentUrl(project)
          THEN /\ previewUrl' = project.deploymentUrl
               /\ projectStatus' = "ready"
               /\ error' = error
               /\ initRun' = [initRun EXCEPT ![i] =
                      Ended(@, "success", "none", "ready",
                            project.deploymentUrl, error, isGenerating)]
          ELSE /\ projectStatus' = "error"
               /\ error' = "Project deployment URL not found"
               /\ previewUrl' = previewUrl
               /\ initRun' = [initRun EXCEPT ![i] =
                      Ended(@, "failure", "nourl", "error", previewUrl,
                            "Project deployment URL not found",
                            isGenerating)]
       \/ /\ error' = "Failed to load project"
          /\ projectStatus' = FetchCatchStatus
          /\ previewUrl' = previewUrl
          /\ initRun' = [initRun EXCEPT ![i] =
                 Ended(@, "failure", "get", FetchCatchStatus, previewUrl,
                       "Failed to load project", isGenerating)]
    /\ loadingCode' = FALSE
    /\ hasInitialized' = TRUE
    /\ UNCHANGED <<messages, prompt, isLoading, isGenerating,
                   currentProjectId, value, location, store, rendered,
                   submitRun>>

\* Lines 174-176 and 101-117: the prompt branch, up to the GET of the
\* short-circuit check, or the return of a call the guard rejects.
EffectGenerate(i) ==
    /\ NextEffect(i)
    /\ ~hasInitialized
    /\ ~(location.existingProject /\ location.projectId # NoProjectId)
    /\ location.prompt # "" /\ location.projectId # NoProjectId
    /\ prompt' = location.prompt
    /\ IF AlreadyGenerating(isGenerating)
       THEN /\ hasInitialized' = TRUE
            /\ initRun' = [initRun EXCEPT ![i] =
                   Returned([@ EXCEPT !.kind = "generate",
                                 !.during = GenerateInFlight],
                            "rejected")]
            /\ error' = ErrorOnReject(error)
            /\ UNCHANGED <<loadingCode, projectStatus, isGenerating>>
       ELSE /\ isGenerating' = TRUE
            /\ loadingCode' = TRUE
            /\ error' = ""
            /\ projectStatus' = "loading"
            /\ initRun' = [initRun EXCEPT ![i] =
                   Called([@ EXCEPT !.pc = "gen_get", !.kind = "generate",
                              !.outcome = "pending",
                              !.during = GenerateInFlight,
                              !.recordAtStart =
                                  store[location.projectId].deploymentUrl],
                          "get")]
            /\ UNCHANGED hasInitialized
    /\ UNCHANGED <<messages, isLoading, previewUrl, currentProjectId, value,
                   location, store, rendered, submitRun>>

\* Lines 177-180: neither an existing project nor a prompt.
EffectIdle(i) ==
    /\ NextEffect(i)
    /\ ~hasInitialized
    /\ ~(location.existingProject /\ location.projectId # NoProjectId)
    /\ ~(location.prompt # "" /\ location.projectId # NoProjectId)
    /\ projectStatus' = "idle"
    /\ hasInitialized' = TRUE
    /\ initRun' = [initRun EXCEPT ![i] =
           Returned([@ EXCEPT !.kind = "idle"], "idle")]
    /\ UNCHANGED <<loadingCode, messages, prompt, isLoading, previewUrl,
                   error, isGenerating, currentProjectId, value, location,
                   store, rendered, submitRun>>

\* ----------------------------------------------------------- generateCode
\* Lines 155-162 and 180: catch, finally, and the return to the effect.
\* Line 157: the detail the catch of generateCode surfaces for a failure at
\* `stage`; the caught error itself goes to the console only (line 156).
GenerateFailureDetail(stage) == "Failed to generate code"

GenerateCatch(i, stage) ==
    /\ error' = GenerateFailureDetail(stage)
    /\ projectStatus' = CatchStatus
    /\ loadingCode' = FALSE
    /\ isGenerating' = GuardOnReturn
    /\ hasInitialized' = TRUE
    /\ initRun' = [initRun EXCEPT ![i] =
           Ended(@, "failure", stage, CatchStatus, previewUrl',
                 GenerateFailureDetail(stage), GuardOnReturn)]

\* Lines 115-129: the GET of the short-circuit check answers.
GenGetResume(i) ==
    /\ initRun[i].pc = "gen_get"
    /\ \/ LET project == store[location.projectId] IN
          IF HasDeploymentUrl(project)
          THEN /\ previewUrl' = project.deploymentUrl
               /\ projectStatus' = "ready"
               /\ loadingCode' = FALSE
               /\ isGenerating' = GuardOnReturn
               /\ hasInitialized' = TRUE
               /\ initRun' = [initRun EXCEPT ![i] =
                      Ended(@, "shortcircuit", "none", "ready",
                            project.deploymentUrl, error, GuardOnReturn)]
               /\ UNCHANGED error
          ELSE /\ initRun' = [initRun EXCEPT ![i] =
                      Called([@ EXCEPT !.pc = "gen_generate"],
                             "generateFrontend")]
               /\ UNCHANGED <<previewUrl, projectStatus, loadingCode,
                              isGenerating, hasInitialized, error>>
       \/ /\ previewUrl' = previewUrl
          /\ GenerateCatch(i, "get")
    /\ UNCHANGED <<messages, prompt, isLoading, currentProjectId, value,
                   location, store, rendered, submitRun>>

\* The context left as it was.
StructureKept(structure) == EmptyStructure

\* Line 135: setValue(parsedFrontend.structure), the context's new value.
StructureSet(structure) == structure

\* Lines 127-139: generateFrontend answers; parse, setValue, write-files.
GenGenerateResume(i) ==
    /\ initRun[i].pc = "gen_generate"
    /\ \/ \E text \in {"wellformed", "malformed"} :
             IF ParseThrows(text)
             THEN /\ previewUrl' = previewUrl
                  /\ value' = value
                  /\ GenerateCatch(i, "parse")
             ELSE /\ value' = StructureSet(ParsedStructure)
                  /\ initRun' = [initRun EXCEPT ![i] =
                         Called([@ EXCEPT !.pc = "gen_write"],
                                "write-files")]
                  /\ UNCHANGED <<previewUrl, projectStatus, loadingCode,
                                 isGenerating, hasInitialized, error>>
       \/ /\ previewUrl' = previewUrl
          /\ value' = value
          /\ GenerateCatch(i, "generateFrontend")
    /\ UNCHANGED <<messages, prompt, isLoading, currentProjectId, location,
                   store, rendered, submitRun>>

\* Lines 137-141: write-files answers; the next call is zipFolder.
\* The write-files call issued once more instead of the packaging call.
WriteAgain(r) == Called(r, "write-files")

\* Line 141: the packaging call that follows the answer of write-files.
PackageCall(r) == Called(r, "zipFolder")

GenWriteResume(i) ==
    /\ initRun[i].pc = "gen_write"
    /\ \E report \in {"ack", "partial", "fail"} :
          IF WriteFilesThrows(report)
          THEN /\ previewUrl' = previewUrl
               /\ GenerateCatch(i, "write-files")
          ELSE /\ initRun' = [initRun EXCEPT ![i] =
                      PackageCall([@ EXCEPT !.pc = "gen_zip",
                                      !.writeReport = report])]
               /\ UNCHANGED <<previewUrl, projectStatus, loadingCode,
                              isGenerating, hasInitialized, error>>
    /\ UNCHANGED <<messages, prompt, isLoading, currentProjectId, value,
                   location, store, rendered, submitRun>>

\* Lines 141-144: zipFolder answers; the next call is buildrun.
GenZipResume(i) ==
    /\ initRun[i].pc = "gen_zip"
    /\ \/ /\ initRun' = [initRun EXCEPT ![i] =
                 Called([@ EXCEPT !.pc = "gen_build"], "buildrun")]
          /\ UNCHANGED <<previewUrl, projectStatus, loadingCode,
                         isGenerating, hasInitialized, error>>
       \/ /\ previewUrl' = previewUrl
          /\ GenerateCatch(i, "zipFolder")
    /\ UNCHANGED <<messages, prompt, isLoading, currentProjectId, value,
                   location, store, rendered, submitRun>>

\* Lines 142-154 and 159-162: buildrun answers with data.data.previewUrl
\* (NoUrl when the field is absent or empty); the PUT follows if line 149
\* allows it, otherwise the run is over.
GenBuildResume(i) ==
    /\ initRun[i].pc = "gen_build"
    /\ \/ \E url \in {NoUrl, BuiltUrl} :
             /\ previewUrl' = PreviewFromBuild(url)
             /\ IF ShouldRecord(location.projectId, url)
                THEN /\ projectStatus' = "ready"
                     /\ initRun' = [initRun EXCEPT ![i] =
                            Called([@ EXCEPT !.pc = "gen_put",
                                       !.builtUrl = url], "put")]
                     /\ UNCHANGED <<loadingCode, isGenerating,
                                    hasInitialized, error>>
                ELSE /\ projectStatus' = "ready"
                     /\ loadingCode' = FALSE
                     /\ isGenerating' = GuardOnReturn
                     /\ hasInitialized' = TRUE
                     /\ initRun' = [initRun EXCEPT ![i] =
                            Ended([@ EXCEPT !.builtUrl = url], "success",
                                  "none", "ready", previewUrl', error,
                                  GuardOnReturn)]
                     /\ UNCHANGED error
       \/ /\ previewUrl' = previewUrl
          /\ GenerateCatch(i, "buildrun")
    /\ UNCHANGED <<messages, prompt, isLoading, currentProjectId, value,
                   location, store, rendered, submitRun>>

\* Lines 150-162: the PUT answers.
GenPutResume(i) ==
    /\ initRun[i].pc = "gen_put"
    /\ \/ /\ store' = [store EXCEPT ![location.projectId] =
                          RecordPatch(initRun[i].builtUrl)]
          /\ loadingCode' = FALSE
          /\ isGenerating' = GuardOnReturn
          /\ hasInitialized' = TRUE
          /\ initRun' = [initRun EXCEPT ![i] =
                 Ended(@, "success", "none", projectStatus, previewUrl,
                       error, GuardOnReturn)]
          /\ UNCHANGED <<previewUrl, projectStatus, error>>
       \/ /\ previewUrl' = previewUrl
          /\ store' = store
          /\ GenerateCatch(i, "put")
    /\ UNCHANGED <<messages, prompt, isLoading, currentProjectId, value,
                   location, rendered, submitRun>>

\* ----------------------------------------------------------- handleSubmit
\* The items the rewrite stage's text can hold once JSON.parse accepted it:
\* each has or lacks a path and a content, and may carry another field.
GoodItem == [path |-> "src/App.tsx", content |-> "code", extra |-> Missing]
NotedItem == [path |-> "src/main.tsx", content |-> "code", extra |-> "note"]
NoContentItem == [path |-> "src/App.tsx", content |-> Missing, extra |-> Missing]
NoPathItem == [path |-> Missing, content |-> "code", extra |-> Missing]

\* The arrays the rewrite stage answers with in the model.
ItemLists ==
    {<<>>, <<GoodItem>>, <<GoodItem, NotedItem>>, <<NoContentItem>>,
     <<GoodItem, NoPathItem>>}

Malformed(item) == item.path = Missing \/ item.content = Missing

\* Lines 240-243: parsedData.map(item => ({path, content})).
ToFiles(items) ==
    [n \in 1..Len(items) |->
        [path |-> items[n].path, content |-> items[n].content]]

\* An early return that looks at isLoading only.
SubmitGuardLoadingOnly(p, loading) == loading

\* Line 188: `if (!prompt.trim() || isLoading) return`.
SubmitGuard(p, loading) == Trim(p) = "" \/ loading

\* Line 371: the textarea is disabled, and lines 376-378 the button too,
\* while a modification runs or the status is loading.
ControlsDisabled(r) == r.isLoading \/ r.projectStatus = "loading"

\* The mount effect runs before the page handles its first event.
Mounted == initRun[1].pc # "notrun"

\* The modification pipeline going on to build and deploy.
SubmitWriteAndBuild(r) ==
    [r EXCEPT !.calls = Append(Append(@, "write-files"), "buildrun")]

\* Lines 245-249: the stage call that ends the modification pipeline.
SubmitWriteCall(r) == Called(r, "write-files")

NextSubmit(k) ==
    /\ submitRun[k].pc = "notrun"
    /\ \A j \in DOMAIN submitRun : j < k => submitRun[j].pc # "notrun"

UserMessage(content) == [content |-> content, type |-> "user"]
SuccessMessage ==
    [content |-> "Changes applied successfully!", type |-> "assistant"]
FailureMessage ==
    [content |-> "Sorry, I encountered an error while applying the changes.",
     type |-> "assistant"]

\* Lines 187-222: the send button or the Enter key, up to generateChanges.
\* The handler is the one of the last committed render; the updates of an
\* event handler are committed before the next event.
HandleSubmit(k) ==
    /\ NextSubmit(k)
    /\ Mounted
    /\ ~ControlsDisabled(rendered)
    /\ ~SubmitGuard(rendered.prompt, rendered.isLoading)
    /\ isLoading' = TRUE
    /\ error' = ""
    /\ messages' = AppendMessage(messages, UserMessage(rendered.prompt))
    /\ prompt' = ""
    /\ submitRun' = [submitRun EXCEPT ![k] =
           Called([@ EXCEPT !.pc = "sub_analyze", !.outcome = "pending",
                      !.currentPrompt = rendered.prompt,
                      !.structure = rendered.value], "generateChanges")]
    /\ UNCHANGED <<loadingCode, previewUrl, projectStatus, hasInitialized,
                   isGenerating, currentProjectId, value, location, store,
                   initRun>>
    /\ rendered' = Snapshot'

\* Lines 259-273: catch and finally of handleSubmit.
SubmitCatch(k, r, stage) ==
    /\ error' = "Failed to apply changes"
    /\ messages' = AppendMessage(messages, FailureMessage)
    /\ isLoading' = FALSE
    /\ submitRun' = [submitRun EXCEPT ![k] =
           [r EXCEPT !.pc = "done", !.outcome = "failure",
                     !.failedStage = stage]]

\* Lines 220-232: generateChanges answers; the next call is
\* extractFilesToChange.
SubmitAnalyzeResume(k) ==
    /\ submitRun[k].pc = "sub_analyze"
    /\ \/ /\ submitRun' = [submitRun EXCEPT ![k] =
                 Called([@ EXCEPT !.pc = "sub_extract"],
                        "extractFilesToChange")]
          /\ UNCHANGED <<error, messages, isLoading>>
       \/ SubmitCatch(k, submitRun[k], "generateChanges")
    /\ UNCHANGED <<loadingCode, prompt, previewUrl, projectStatus,
                   hasInitialized, isGenerating, currentProjectId, value,
                   location, store, rendered, initRun>>

\* Lines 226-237: extractFilesToChange answers; the next call is modify.
SubmitExtractResume(k) ==
    /\ submitRun[k].pc = "sub_extract"
    /\ \/ /\ submitRun' = [submitRun EXCEPT ![k] =
                 Called([@ EXCEPT !.pc = "sub_modify"], "modify")]
          /\ UNCHANGED <<error, messages, isLoading>>
       \/ SubmitCatch(k, submitRun[k], "extractFilesToChange")
    /\ UNCHANGED <<loadingCode, prompt, previewUrl, projectStatus,
                   hasInitialized, isGenerating, currentProjectId, value,
                   location, store, rendered, initRun>>

\* Lines 234-249: modify answers; JSON.parse, the map, then write-files.
SubmitModifyResume(k) ==
    /\ submitRun[k].pc = "sub_modify"
    /\ \/ \E items \in ItemLists :
             /\ submitRun' = [submitRun EXCEPT ![k] =
                    SubmitWriteCall([@ EXCEPT !.pc = "sub_write",
                                        !.modifyOutput = items,
                                        !.written = ToFiles(items)])]
             /\ UNCHANGED <<error, messages, isLoading>>
       \/ SubmitCatch(k, submitRun[k], "parse")
       \/ SubmitCatch(k, submitRun[k], "modify")
    /\ UNCHANGED <<loadingCode, prompt, previewUrl, projectStatus,
                   hasInitialized, isGenerating, currentProjectId, value,
                   location, store, rendered, initRun>>

\* Lines 245-273: write-files answers; its response is not read.
SubmitWriteResume(k) ==
    /\ submitRun[k].pc = "sub_write"
    /\ \/ \E report \in {"ack", "partial"} :
             /\ messages' = AppendMessage(messages, SuccessMessage)
             /\ isLoading' = FALSE
             /\ submitRun' = [submitRun EXCEPT ![k] =
                    [@ EXCEPT !.pc = "done", !.outcome = "success"]]
             /\ UNCHANGED error
       \/ SubmitCatch(k, submitRun[k], "write-files")
    /\ UNCHANGED <<loadingCode, prompt, previewUrl, projectStatus,
                   hasInitialized, isGenerating, currentProjectId, value,
                   location, store, rendered, initRun>>

\* Lines 286-291: typing in the textarea (enabled per line 371).
HandlePromptChange ==
    /\ Mounted
    /\ ~ControlsDisabled(rendered)
    /\ \E text \in TypedPrompts :
          /\ prompt' = text
          /\ text # rendered.prompt
    /\ UNCHANGED <<loadingCode, messages, isLoading, previewUrl, error,
                   projectStatus, hasInitialized, isGenerating,
                   currentProjectId, value, location, store, initRun,
                   submitRun>>
    /\ rendered' = Snapshot'

\* React commits the state set after an await in a later render.
Render ==
    /\ rendered # Snapshot
    /\ rendered' = Snapshot
    /\ UNCHANGED <<loadingCode, messages, prompt, isLoading, previewUrl,
                   error, projectStatus, hasInitialized, isGenerating,
                   currentProjectId, value, location, store, initRun,
                   submitRun>>

Next ==
    \/ \E i \in EffectIds :
          \/ EffectSkip(i)
          \/ EffectFetch(i)
          \/ EffectGenerate(i)
          \/ EffectIdle(i)
          \/ FetchGetResume(i)
          \/ GenGetResume(i)
          \/ GenGenerateResume(i)
          \/ GenWriteResume(i)
          \/ GenZipResume(i)
          \/ GenBuildResume(i)
          \/ GenPutResume(i)
    \/ \E k \in SubmitIds :
          \/ HandleSubmit(k)
          \/ SubmitAnalyzeResume(k)
          \/ SubmitExtractResume(k)
          \/ SubmitModifyResume(k)
          \/ SubmitWriteResume(k)
    \/ HandlePromptChange
    \/ Render

Spec == Init /\ [][Next]_vars

\* A session on an existing, deployed project: the page is opened with
\* location.state = {projectId, existingProject: true} (lines 55-60), the
\* mount effect fetches the project, the user sends requirements.
SessionInit ==
    /\ loadingCode = FALSE
    /\ messages = <<>>
    /\ prompt = ""
    /\ isLoading = FALSE
    /\ previewUrl = NoUrl
    /\ error = ""
    /\ projectStatus = "idle"
    /\ hasInitialized = FALSE
    /\ isGenerating = FALSE
    /\ currentProjectId = {}
    /\ value = EmptyStructure
    /\ location \in [prompt : {""}, projectId : ProjectIds,
                     existingProject : {TRUE}]
    /\ store = [p \in ProjectIds |->
                   [deploymentUrl |-> RecordedUrl, status |-> "ready"]]
    /\ rendered = [prompt |-> "", isLoading |-> FALSE,
                   projectStatus |-> "idle", value |-> EmptyStructure]
    /\ initRun = [i \in EffectIds |-> FreshInitRun]
    /\ submitRun = [k \in SessionSubmitIds |-> FreshSubmitRun]

SessionNext ==
    \/ \E i \in EffectIds :
          \/ EffectSkip(i)
          \/ EffectFetch(i)
          \/ FetchGetResume(i)
    \/ \E k \in SessionSubmitIds :
          \/ HandleSubmit(k)
          \/ SubmitAnalyzeResume(k)
          \/ SubmitExtractResume(k)
          \/ SubmitModifyResume(k)
          \/ SubmitWriteResume(k)
    \/ HandlePromptChange
    \/ Render

SessionSpec == SessionInit /\ [][SessionNext]_vars

\* Every awaited request is answered or fails: each resumption that is
\* enabled is eventually taken.
ServicesAnswer ==
    /\ \A i \in EffectIds :
          /\ WF_vars(FetchGetResume(i))
          /\ WF_vars(GenGetResume(i))
          /\ WF_vars(GenGenerateResume(i))
          /\ WF_vars(GenWriteResume(i))
          /\ WF_vars(GenZipResume(i))
          /\ WF_vars(GenBuildResume(i))
          /\ WF_vars(GenPutResume(i))
    /\ \A k \in SubmitIds :
          /\ WF_vars(SubmitAnalyzeResume(k))
          /\ WF_vars(SubmitExtractResume(k))
          /\ WF_vars(SubmitModifyResume(k))
          /\ WF_vars(SubmitWriteResume(k))

FairSpec == Spec /\ ServicesAnswer

\* ===================================================== the claims
\* The stage calls of a generation run, in the order of lines 115-153.
GenerationOrder ==
    <<"get", "generateFrontend", "write-files", "zipFolder", "buildrun",
      "put">>

CallsOf(r) == {r.calls[n] : n \in 1..Len(r.calls)}

\* The call during which a failure at `stage` happens (parsing follows the
\* answer of generateFrontend).
StageCallOf(stage) == IF stage = "parse" THEN "generateFrontend" ELSE stage

AdmittedGenerate(r) == r.kind = "generate" /\ r.outcome # "rejected"

\* C1: a generate run admitted for a project whose store record carries a
\* deployment URL issues no call but the project fetch, and once that fetch
\* has answered the run ends with the preview URL equal to the recorded URL
\* and the status ready.
C1_ShortCircuit ==
    \A i \in EffectIds :
        LET r == initRun[i] IN
        (AdmittedGenerate(r) /\ r.recordAtStart # NoUrl) =>
            /\ CallsOf(r) \subseteq {"get"}
            /\ (r.pc = "done" /\ r.failedStage # "get") =>
                   /\ r.outcome = "shortcircuit"
                   /\ r.endPreviewUrl = r.recordAtStart
                   /\ r.endStatus = "ready"

C1_Witness ==
    \E i \in EffectIds :
        /\ initRun[i].outcome = "shortcircuit"
        /\ initRun[i].recordAtStart = RecordedUrl
        /\ previewUrl = RecordedUrl

\* C2: of two generate calls that overlap, the one issued while the other
\* is suspended returns without a stage call, the other one issues the
\* stage calls, and at no time are two generation runs in flight.
C2_OneGenerateRun ==
    /\ Cardinality(GenerateInFlight) <= 1
    /\ \A j \in EffectIds :
          (initRun[j].kind = "generate" /\ initRun[j].during # {}) =>
              /\ initRun[j].outcome = "rejected"
              /\ initRun[j].calls = <<>>
              /\ \A i \in initRun[j].during :
                    /\ initRun[i].outcome # "rejected"
                    /\ initRun[i].calls # <<>>

C2_Witness ==
    \E i, j \in EffectIds :
        /\ i \in initRun[j].during
        /\ initRun[j].outcome = "rejected"
        /\ initRun[i].pc = "gen_build"

C4_GuardReleased ==
    /\ \A i \in EffectIds :
          (AdmittedGenerate(initRun[i]) /\ initRun[i].pc = "done") =>
              initRun[i].endGuard = FALSE
    /\ isGenerating => GenerateInFlight # {}

C4_Witness ==
    \E i \in EffectIds :
        /\ AdmittedGenerate(initRun[i])
        /\ initRun[i].outcome = "failure"
        /\ initRun[i].failedStage = "zipFolder"
        /\ ~isGenerating

\* C5: a generation run whose write stage reported a partial failure makes
\* no zipFolder and no buildrun call and ends with the status error.
C5_PartialWriteIsError ==
    \A i \in EffectIds :
        LET r == initRun[i] IN
        r.writeReport = "partial" =>
            /\ CallsOf(r) \cap {"zipFolder", "buildrun"} = {}
            /\ r.pc = "done" => r.endStatus = "error"

\* C6: a generation run that failed at the project fetch, generate, parse,
\* write, package or build stage has issued the stage calls in order up to
\* the failing one and none after it, has not issued the project update,
\* and has ended with the status error and an error message.
C6_FailureAborts ==
    \A i \in EffectIds :
        LET r == initRun[i] IN
        (r.kind = "generate" /\ r.outcome = "failure"
            /\ r.failedStage # "put") =>
            /\ r.calls = SubSeq(GenerationOrder, 1, Len(r.calls))
            /\ r.calls[Len(r.calls)] = StageCallOf(r.failedStage)
            /\ "put" \notin CallsOf(r)
            /\ r.endStatus = "error"
            /\ r.endError # ""

C6_Witness ==
    \E i \in EffectIds :
        /\ initRun[i].kind = "generate"
        /\ initRun[i].outcome = "failure"
        /\ initRun[i].failedStage = "write-files"
        /\ projectStatus = "error"

\* C7: a generation run for a project without a recorded deployment URL
\* that made every stage call, the project update included, and succeeded
\* ends with the preview URL equal to the URL buildrun returned, and the
\* store record of the project is {deploymentUrl: that URL, status: ready}.
C7_RecordedOnSuccess ==
    \A i \in EffectIds :
        LET r == initRun[i] IN
        (r.kind = "generate" /\ r.outcome = "success"
            /\ r.recordAtStart = NoUrl /\ r.calls = GenerationOrder) =>
            /\ r.builtUrl # NoUrl
            /\ r.endPreviewUrl = r.builtUrl
            /\ r.endStatus = "ready"
            /\ store[location.projectId] =
                   [deploymentUrl |-> r.builtUrl, status |-> "ready"]

C7_Witness ==
    \E i \in EffectIds :
        /\ initRun[i].outcome = "success"
        /\ initRun[i].calls = GenerationOrder
        /\ store[location.projectId].deploymentUrl = BuiltUrl

\* C8: a generation run of which only the project update failed ends with
\* the status ready, the preview URL buildrun returned and no error message.
C8_RecordFailureIsSuccess ==
    \A i \in EffectIds :
        LET r == initRun[i] IN
        (r.kind = "generate" /\ r.pc = "done" /\ r.failedStage = "put") =>
            /\ r.endStatus = "ready"
            /\ r.endPreviewUrl = r.builtUrl
            /\ r.endError = ""

\* C9: no step of a modification run changes the project store, and no
\* modification run issues a project update, a zipFolder or a buildrun
\* call, whether it succeeds or fails.
C9_SubmitLeavesStore ==
    [][\A k \in SubmitIds :
          submitRun'[k] # submitRun[k] =>
              /\ store' = store
              /\ CallsOf(submitRun'[k])
                     \cap {"put", "zipFolder", "buildrun"} = {}]_vars

C9_Witness ==
    \E k \in SubmitIds :
        /\ submitRun[k].outcome = "success"
        /\ submitRun[k].calls =
               <<"generateChanges", "extractFilesToChange", "modify",
                 "write-files">>
        /\ store[location.projectId].deploymentUrl # NoUrl

\* C10: a modification run whose rewrite output holds an item without a
\* path or without a content does not call write-files and ends in failure.
C10_StrictParsing ==
    \A k \in SubmitIds :
        LET r == submitRun[k] IN
        (\E n \in 1..Len(r.modifyOutput) : Malformed(r.modifyOutput[n])) =>
            /\ "write-files" \notin CallsOf(r)
            /\ r.pc = "done" => r.outcome = "failure"


\* C11: whenever the status is ready, the preview URL is not empty.
C11_ReadyHasPreview == projectStatus = "ready" => previewUrl # NoUrl

\* The URLs the build/deploy stage has returned: those recorded in the
\* project store and those buildrun answered with in this session.
UrlsFromBuild ==
    {store[p].deploymentUrl : p \in ProjectIds}
    \cup {initRun[i].builtUrl : i \in EffectIds}

\* A step of a modification run: its record changes.
SubmitStep == \E k \in SubmitIds : submitRun'[k] # submitRun[k]

\* C12: a preview URL that is not empty is one the build/deploy stage
\* returned, in this session or as recorded in the project store, and no
\* step of a modification run changes the preview URL.
C12_PreviewFromBuild ==
    /\ [](previewUrl # NoUrl => previewUrl \in UrlsFromBuild)
    /\ [][SubmitStep => previewUrl' = previewUrl]_vars

C12_Witness ==
    /\ previewUrl = BuiltUrl
    /\ \E i \in EffectIds : initRun[i].builtUrl = BuiltUrl
    /\ \E k \in SubmitIds : submitRun[k].outcome = "failure"


\* The changes of a persisted status the lifecycle allows.
PersistedStatusSteps ==
    {<<"pending", "building">>, <<"building", "ready">>,
     <<"building", "error">>, <<"ready", "building">>,
     <<"error", "building">>}

\* C13: the status persisted for a project changes only from pending to
\* building, from building to ready or error, and from ready or error back
\* to building.
C13_PersistedLifecycle ==
    [][\A p \in ProjectIds :
          store'[p].status # store[p].status =>
              <<store[p].status, store'[p].status>>
                  \in PersistedStatusSteps]_vars

\* The changes of the display status the state machine allows.
DisplayStatusSteps ==
    {<<"idle", "loading">>, <<"loading", "ready">>, <<"loading", "error">>,
     <<"ready", "loading">>, <<"error", "loading">>}

\* C14: projectStatus changes only from idle to loading, from loading to
\* ready or error, and from ready or error back to loading.
C14_DisplayLifecycle ==
    [][projectStatus' # projectStatus =>
          <<projectStatus, projectStatus'>> \in DisplayStatusSteps]_vars


\* C15: an initialization for an existing project sets the status to
\* loading and issues the project fetch and no other call; it ends ready
\* with the recorded URL as preview if the fetch answered with a record that
\* has a deployment URL, and ends error if the record has none or the fetch
\* failed.
C15_ExistingProjectFetch ==
    /\ [](\A i \in EffectIds :
            LET r == initRun[i]
                recorded == store[location.projectId].deploymentUrl IN
            (r.kind = "fetch" /\ r.outcome # "rejected") =>
                /\ location.existingProject
                /\ r.calls = <<"get">>
                /\ r.pc = "done" =>
                       IF r.failedStage # "get" /\ recorded # NoUrl
                       THEN /\ r.outcome = "success"
                            /\ r.endStatus = "ready"
                            /\ r.endPreviewUrl = recorded
                       ELSE /\ r.outcome = "failure"
                            /\ r.endStatus = "error")
    /\ [][\A i \in EffectIds :
            (initRun[i].pc = "notrun" /\ initRun'[i].pc = "fetch_get") =>
                projectStatus' = "loading"]_vars

C15_Witness ==
    \E i \in EffectIds :
        /\ initRun[i].kind = "fetch"
        /\ initRun[i].outcome = "success"
        /\ projectStatus = "ready"
        /\ previewUrl = RecordedUrl


\* C16: no step of a modification run changes projectStatus or the preview
\* URL, and none reports through anything but the message log: the error
\* message stays as it was.
C16_SubmitLeavesDisplay ==
    [][SubmitStep =>
          /\ projectStatus' = projectStatus
          /\ previewUrl' = previewUrl
          /\ error' = error]_vars

\* C17: if every request is answered, a run that was started returns, a
\* loading status becomes ready or error, and loadingCode is cleared.
C17_RunsTerminate ==
    /\ \A i \in EffectIds :
          InFlight(initRun[i]) ~> (initRun[i].pc = "done")
    /\ (projectStatus = "loading") ~> (projectStatus \in {"ready", "error"})
    /\ loadingCode ~> ~loadingCode

C17_Witness ==
    \E i \in EffectIds :
        /\ initRun[i].kind = "generate"
        /\ initRun[i].pc = "done"
        /\ Len(initRun[i].calls) = Len(GenerationOrder)
        /\ ~loadingCode
        /\ projectStatus \in {"ready", "error"}

\* C18: whenever the status is error, the error message is not empty.
C18_ErrorHasDetail == projectStatus = "error" => error # ""

StartedSubmits == {k \in SubmitIds : submitRun[k].pc # "notrun"}
DoneSubmits == {k \in SubmitIds : submitRun[k].pc = "done"}

\* C19: the message log only grows at its end, one message at a time; the
\* k-th modification run has appended its requirement as a user message and,
\* once it has returned, one assistant message right after it: the success
\* summary if no step failed, the failure message otherwise.
C19_MessageLog ==
    /\ [](/\ Len(messages) =
                Cardinality(StartedSubmits) + Cardinality(DoneSubmits)
          /\ \A k \in StartedSubmits :
                LET r == submitRun[k] IN
                /\ Len(messages) >= 2 * k - 1
                /\ messages[2 * k - 1] = UserMessage(r.currentPrompt)
                /\ r.pc = "done" =>
                       /\ Len(messages) >= 2 * k
                       /\ messages[2 * k] =
                              IF r.failedStage = "none"
                              THEN SuccessMessage ELSE FailureMessage)
    /\ [][messages' # messages =>
             /\ Len(messages') = Len(messages) + 1
             /\ SubSeq(messages', 1, Len(messages)) = messages]_vars

C19_Witness ==
    /\ Len(messages) = 2
    /\ messages[1] = UserMessage("add a dark mode toggle")
    /\ messages[2] = FailureMessage

\* C20: the step in which a generateCode call is rejected by the guard
\* leaves projectStatus, the preview URL, the error message, loadingCode and
\* isGenerating as they were, and leaves every other run as it was.
C20_RejectedIsNoOp ==
    [][\A j \in EffectIds :
          (initRun[j].pc = "notrun" /\ initRun'[j].kind = "generate"
              /\ initRun'[j].outcome = "rejected") =>
              /\ UNCHANGED <<projectStatus, previewUrl, error, loadingCode,
                             isGenerating>>
              /\ \A i \in EffectIds \ {j} : initRun'[i] = initRun[i]]_vars

C20_Witness ==
    \E i, j \in EffectIds :
        /\ initRun[j].outcome = "rejected"
        /\ i \in initRun[j].during
        /\ initRun[i].outcome = "success"
        /\ error = ""


\* The places where a generation run can fail (lines 112-154).
GenerateFailedStages ==
    {"get", "generateFrontend", "parse", "write-files", "zipFolder",
     "buildrun", "put"}

\* C21: the failure detail a failed generation run surfaces differs from the
\* detail surfaced for a failure at any other stage, so that the detail tells
\* which stage failed.
C21_FailureNamesStage ==
    \A i \in EffectIds :
        (AdmittedGenerate(initRun[i]) /\ initRun[i].outcome = "failure") =>
            \A other \in GenerateFailedStages \ {initRun[i].failedStage} :
                initRun[i].endError # GenerateFailureDetail(other)

\* The stage calls of a modification run, in the order of lines 220-249.
ModificationOrder ==
    <<"generateChanges", "extractFilesToChange", "modify", "write-files">>

IsPrefix(s, t) == Len(s) <= Len(t) /\ s = SubSeq(t, 1, Len(s))

\* The number of stage calls a run at position `pc` has issued: every call
\* but the last has been answered.
IssuedAt(pc) ==
    CASE pc = "fetch_get" -> 1
      [] pc = "gen_get" -> 1
      [] pc = "gen_generate" -> 2
      [] pc = "gen_write" -> 3
      [] pc = "gen_zip" -> 4
      [] pc = "gen_build" -> 5
      [] pc = "gen_put" -> 6
      [] pc = "sub_analyze" -> 1
      [] pc = "sub_extract" -> 2
      [] pc = "sub_modify" -> 3
      [] pc = "sub_write" -> 4

\* C22: the stage calls of a run are an initial part of the fixed order of
\* its pipeline (so no call is repeated or taken out of turn), a suspended
\* run awaits the last call it issued, a run that failed issued no call
\* after the one that failed, and every step adds at most one call to a run,
\* at the end of what it had issued.
C22_StageOrder ==
    /\ [](/\ \A i \in EffectIds :
                LET r == initRun[i] IN
                /\ IsPrefix(r.calls, GenerationOrder)
                /\ r.kind = "fetch" => Len(r.calls) <= 1
                /\ InFlight(r) => Len(r.calls) = IssuedAt(r.pc)
                /\ (r.outcome = "failure" /\ r.failedStage # "nourl") =>
                       /\ r.calls # <<>>
                       /\ r.calls[Len(r.calls)] = StageCallOf(r.failedStage)
          /\ \A k \in SubmitIds :
                LET r == submitRun[k] IN
                /\ IsPrefix(r.calls, ModificationOrder)
                /\ InFlight(r) => Len(r.calls) = IssuedAt(r.pc)
                /\ r.outcome = "failure" =>
                       /\ r.calls # <<>>
                       /\ r.calls[Len(r.calls)] =
                              (IF r.failedStage = "parse" THEN "modify"
                               ELSE r.failedStage))
    /\ [][/\ \A i \in EffectIds :
                \/ initRun'[i].calls = initRun[i].calls
                \/ /\ Len(initRun'[i].calls) = Len(initRun[i].calls) + 1
                   /\ IsPrefix(initRun[i].calls, initRun'[i].calls)
          /\ \A k \in SubmitIds :
                \/ submitRun'[k].calls = submitRun[k].calls
                \/ /\ Len(submitRun'[k].calls) = Len(submitRun[k].calls) + 1
                   /\ IsPrefix(submitRun[k].calls, submitRun'[k].calls)]_vars

C22_Witness ==
    \E i \in EffectIds, k \in SubmitIds :
        /\ initRun[i].calls = GenerationOrder
        /\ submitRun[k].calls = ModificationOrder
        /\ submitRun[k].outcome = "success"


\* The invocations of the mount effect that issued a request.
StartedPipelines == {i \in EffectIds : initRun[i].calls # <<>>}

\* C23: however often the body of the mount effect is invoked, at most one
\* invocation issues a request: no second project fetch and no second
\* generation run is started.
C23_InitializesOnce == Cardinality(StartedPipelines) <= 1

\* C24: a call of fetchProjectDeploymentUrl made when currentProjectId
\* already holds the project id and the status is no longer idle returns
\* without a request and leaves status, error and preview URL as they were.
C24_DuplicateFetchReturns ==
    [][\A i \in EffectIds :
          (/\ initRun[i].pc = "notrun"
           /\ initRun'[i].kind = "fetch"
           /\ location.projectId \in currentProjectId
           /\ projectStatus # "idle") =>
              /\ initRun'[i].calls = <<>>
              /\ UNCHANGED <<projectStatus, error, previewUrl>>]_vars


SubmitsInFlight == {k \in DOMAIN submitRun : InFlight(submitRun[k])}

ParsedRuns ==
    {i \in EffectIds : "write-files" \in CallsOf(initRun[i])}

\* C26: the context holds the parsed structure from the step in which a
\* generation run's parse succeeded, the step that goes on to call
\* write-files, and holds its initial value until then; no other step
\* changes it, so the status fetch, the short circuit, a generation run that
\* fails at or before parsing and the modification runs leave it alone; a
\* modification run started when no generation run got past parsing has
\* submitted the initial value as the structure.
C26_ContextWrittenByParse ==
    /\ [](/\ ParsedRuns # {} => value = ParsedStructure
          /\ ParsedRuns = {} =>
                /\ value = EmptyStructure
                /\ \A k \in SubmitIds :
                      submitRun[k].structure = EmptyStructure)
    /\ [][value' # value =>
             \E i \in EffectIds :
                 /\ initRun[i].pc = "gen_generate"
                 /\ initRun'[i].pc = "gen_write"
                 /\ initRun'[i].calls = Append(initRun[i].calls,
                                               "write-files")]_vars

C26_Witness ==
    \E i \in EffectIds, k \in SubmitIds :
        /\ initRun[i].outcome = "shortcircuit"
        /\ "generateChanges" \in CallsOf(submitRun[k])
        /\ submitRun[k].structure = EmptyStructure

====
